---- MODULE Spec2Model ----
(***************************************************************************)
(* Model of SCons/Tool/ifort.py: discovery of installed Intel Fortran      *)
(* compilers (registry on win32, directory globs on linux), selection of   *)
(* a version, resolution of the installation root and composition of the   *)
(* environment path mutations.                                             *)
(*                                                                         *)
(* Strings whose characters matter (version strings, the tails of          *)
(* directory names) are sequences of one-character strings.  Paths are     *)
(* sequences of path components.  The host (platform, filesystem,          *)
(* registry) is fixed by Init; each behaviour applies one call to it.      *)
(***************************************************************************)
EXTENDS Integers, Sequences, FiniteSets, TLC

VARIABLES platform, is_win64, can_read_reg, fs, registry, call, outcome

vars == <<platform, is_win64, can_read_reg, fs, registry, call, outcome>>

----------------------------------------------------------------------------
(* Bounds of the model *)

\* largest number of installation directories under /opt/intel
MaxDirs == 2
\* largest number of version keys in the registry (both roots together)
MaxKeys == 2

----------------------------------------------------------------------------
(* Python values and string operations *)

\* Python's None (a token that is not a string of the alphabet)
None == <<"None">>

Digits == {"0", "1", "2", "3", "4", "5", "6", "7", "8", "9"}

IsDigit(c) == c \in Digits

DigitVal(c) ==
  CASE c = "0" -> 0 [] c = "1" -> 1 [] c = "2" -> 2 [] c = "3" -> 3
    [] c = "4" -> 4 [] c = "5" -> 5 [] c = "6" -> 6 [] c = "7" -> 7
    [] c = "8" -> 8 [] c = "9" -> 9

DigitChar(n) ==
  CASE n = 0 -> "0" [] n = 1 -> "1" [] n = 2 -> "2" [] n = 3 -> "3"
    [] n = 4 -> "4" [] n = 5 -> "5" [] n = 6 -> "6" [] n = 7 -> "7"
    [] n = 8 -> "8" [] n = 9 -> "9"

\* code point of a character, the order Python compares strings by
Ord(c) ==
  CASE c = "." -> 46
    [] c \in Digits -> 48 + DigitVal(c)
    [] c = "_" -> 95
    [] c = "p" -> 112
    [] c = "s" -> 115
    [] OTHER -> 120

Min(a, b) == IF a < b THEN a ELSE b

\* Python's  a < b  on strings
StrLess(a, b) ==
  \E i \in 1..(Min(Len(a), Len(b)) + 1) :
    /\ \A j \in 1..(i - 1) : a[j] = b[j]
    /\ \/ i > Len(a) /\ i <= Len(b)
       \/ i <= Len(a) /\ i <= Len(b) /\ Ord(a[i]) < Ord(b[i])

\* Python's  sub in s  on strings
Contains(sub, s) ==
  \E i \in 0..(Len(s) - Len(sub)) : SubSeq(s, i + 1, i + Len(sub)) = sub

NotDot(c) == c # "."

\* Python's  s.replace(".", "")
StripDots(s) == SelectSeq(s, NotDot)

\* Python's  s.split(".")[0]
FirstComponent(s) ==
  LET dots == {i \in 1..Len(s) : s[i] = "."}
  IN  IF dots = {} THEN s
      ELSE SubSeq(s, 1, (CHOOSE i \in dots : \A j \in dots : i <= j) - 1)

RECURSIVE DigitsToNat(_)
DigitsToNat(s) ==
  IF s = << >> THEN 0
  ELSE 10 * DigitsToNat(SubSeq(s, 1, Len(s) - 1)) + DigitVal(s[Len(s)])

RECURSIVE NatToChars(_)
\* Python's  str(n)  for a non-negative int
NatToChars(n) ==
  IF n < 10 THEN <<DigitChar(n)>>
  ELSE Append(NatToChars(n \div 10), DigitChar(n % 10))

AllDigits(s) == \A i \in 1..Len(s) : IsDigit(s[i])

\* int(s) succeeds (no ValueError), for strings over digits and "."
IsInt(s) == s # << >> /\ AllDigits(s)

\* float(s) succeeds (no ValueError), for strings over digits and ".":
\* at most one point and at least one digit
IsFloat(s) ==
  /\ \A i \in 1..Len(s) : IsDigit(s[i]) \/ s[i] = "."
  /\ Cardinality({i \in 1..Len(s) : s[i] = "."}) <= 1
  /\ \E i \in 1..Len(s) : IsDigit(s[i])

\* str(int(float(s)))  for a string that float() accepts
IntOfFloat(s) == NatToChars(DigitsToNat(FirstComponent(s)))

\* the prefix of s[i..] made of digits: its length
RECURSIVE DigitRun(_, _)
DigitRun(s, i) ==
  IF i <= Len(s) /\ IsDigit(s[i]) THEN 1 + DigitRun(s, i + 1) ELSE 0

\* insert x in a list sorted in descending string order
InsertDesc(x, s) ==
  LET k == Cardinality({i \in 1..Len(s) : ~StrLess(s[i], x)})
  IN  SubSeq(s, 1, k) \o <<x>> \o SubSeq(s, k + 1, Len(s))

RECURSIVE SortedReverse(_)
\* Python's  sorted(versions, reverse=True)  on a list of strings
SortedReverse(s) ==
  IF s = << >> THEN << >>
  ELSE InsertDesc(s[1], SortedReverse(Tail(s)))

RECURSIVE SetToSeq(_)
SetToSeq(S) ==
  IF S = {} THEN << >>
  ELSE LET x == CHOOSE y \in S : TRUE IN <<x>> \o SetToSeq(S \ {x})

----------------------------------------------------------------------------
(* Version strings *)

V19     == <<"1", "9">>
V190    == <<"1", "9", "0">>
V19_0   == <<"1", "9", ".", "0">>
V19_1   == <<"1", "9", ".", "1">>
V19_0_1 == <<"1", "9", ".", "0", ".", "1">>
V9_0    == <<"9", ".", "0">>
V12_1   == <<"1", "2", ".", "1">>
V4_0    == <<"4", ".", "0">>
V99_9   == <<"9", "9", ".", "9">>
V2017   == <<"2", "0", "1", "7">>
V2017_1 == <<"2", "0", "1", "7", ".", "1">>
V2017_4 == <<"2", "0", "1", "7", ".", "4">>
V2017_4_196 == <<"2", "0", "1", "7", ".", "4", ".", "1", "9", "6">>
V2011_11_344 == <<"2", "0", "1", "1", ".", "1", "1", ".", "3", "4", "4">>
V2021_3 == <<"2", "0", "2", "1", ".", "3">>
V2023_0 == <<"2", "0", "2", "3", ".", "0">>

----------------------------------------------------------------------------
(* The host: directory names, installation trees, registry contents *)

\* names of directories that may exist under /opt/intel
DirNames ==
  { "composer_xe_2011_sp1.11.344", "composer_xe_12.1", "composerxe-12.1",
    "compilers_and_libraries_2017.4.196", "compilers_and_libraries_2017.4",
    "compilers_and_libraries_2017.1", "compilers_and_libraries_9.0" }

\* the glob pattern a directory name matches
DirKind(name) ==
  CASE name \in {"composer_xe_2011_sp1.11.344", "composer_xe_12.1"}
         -> "composer_xe_"
    [] name = "composerxe-12.1" -> "composerxe-"
    [] name \in {"compilers_and_libraries_2017.4.196",
                 "compilers_and_libraries_2017.4",
                 "compilers_and_libraries_2017.1",
                 "compilers_and_libraries_9.0"} -> "compilers_and_libraries_"
    [] OTHER -> "other"

\* the characters of a directory name from the last character of its
\* pattern prefix on (no regular expression of the module can match earlier)
DirTail(name) ==
  CASE name = "composer_xe_2011_sp1.11.344" ->
         <<"_", "2", "0", "1", "1", "_", "s", "p", "1", ".", "1", "1", ".",
           "3", "4", "4">>
    [] name = "composer_xe_12.1" -> <<"_">> \o V12_1
    [] name = "composerxe-12.1" -> <<"-">> \o V12_1
    [] name = "compilers_and_libraries_2017.4.196" -> <<"_">> \o V2017_4_196
    [] name = "compilers_and_libraries_2017.4" -> <<"_">> \o V2017_4
    [] name = "compilers_and_libraries_2017.1" -> <<"_">> \o V2017_1
    [] name = "compilers_and_libraries_9.0" -> <<"_">> \o V9_0
    [] OTHER -> << >>

\* what an installation directory contains
Shapes == {"empty", "ia32", "intel64mkl"}

OptIntel == <<"opt", "intel">>

Prefixes(p) == {SubSeq(p, 1, k) : k \in 1..Len(p)}

\* the files of one installation directory
InstallTree(name, shape) ==
  LET base == OptIntel \o <<name>>
      root == IF DirKind(name) = "compilers_and_libraries_"
              THEN base \o <<"linux">> ELSE base
      leaves ==
        CASE shape = "empty" -> {base}
          [] shape = "ia32" -> {root \o <<"bin", "ia32", "icc">>}
          [] shape = "intel64mkl" ->
               { root \o <<"bin", "intel64", "icc">>,
                 root \o <<"mkl", "bin", "intel64">>,
                 root \o <<"lib", "intel64">> }
  IN  UNION {Prefixes(p) : p \in leaves}

\* a directory the caller may name as topdir: it exists on every host and
\* holds no compiler binary
CustomTop == <<"opt", "custom">>
\* a directory the caller may name as topdir and that does not exist
MissingTop == <<"opt", "missing">>

RECURSIVE InstallSets(_)
\* the sets of at most k installations, no two with the same name
InstallSets(k) ==
  IF k = 0 THEN {{}}
  ELSE LET P == InstallSets(k - 1)
       IN  P \cup { S \cup {[name |-> n, shape |-> sh]} :
                      S \in { T \in P : Cardinality(T) = k - 1 },
                      n \in DirNames, sh \in Shapes }

DistinctNames(S) == \A a, b \in S : a.name = b.name => a = b

LinuxFilesystems ==
  { Prefixes(CustomTop)
      \cup UNION {InstallTree(i.name, i.shape) : i \in S} :
    S \in {T \in InstallSets(MaxDirs) : DistinctNames(T)} }

\* installation roots the registry may name
WinFull  == <<"C:", "Intel", "full">>
WinBare  == <<"C:", "Intel", "bare">>
WinStale == <<"C:", "Intel", "stale">>

WindowsFilesystem ==
  Prefixes(CustomTop) \cup Prefixes(WinBare)
    \cup Prefixes(WinFull \o <<"bin", "intel64", "ifort.exe">>)
    \cup Prefixes(WinFull \o <<"mkl", "bin", "intel64">>)
    \cup Prefixes(WinFull \o <<"redist", "intel64">>)

RegRoots == {"Fortran", "1AFortran"}

\* names of subkeys that may exist under a registry root
RegVersions == {V9_0, V19_0, V19_1, V19_0_1, V2021_3, V2023_0}

\* the ProductDir value of a version key (None: the key has no such value)
ProductDirOf(root, version) ==
  CASE version = V19_0 -> WinFull
    [] version = V19_1 -> WinBare
    [] version = V2021_3 -> WinBare
    [] version = V2023_0 -> WinFull
    [] version = V9_0 -> IF root = "Fortran" THEN WinStale ELSE None
    [] OTHER -> None

RECURSIVE KeySets(_)
KeySets(k) ==
  IF k = 0 THEN {{}}
  ELSE LET P == KeySets(k - 1)
       IN  P \cup { S \cup {[root |-> r, version |-> v]} :
                      S \in P, r \in RegRoots, v \in RegVersions }

----------------------------------------------------------------------------
(* Host identification and the services of the host *)

is_windows == platform = "win32"
is_linux == platform = "linux"

exists(p) == p \in fs

isdir(p) == p \in fs

join(a, b) == a \o b

\* glob.glob("/opt/intel*/<kind>*"), as a set: the order of the list that
\* glob returns is not specified
glob(kind) ==
  {d \in fs : Len(d) = 3 /\ SubSeq(d, 1, 2) = OptIntel /\ DirKind(d[3]) = kind}

\* SCons.Util.RegOpenKeyEx(HKEY_LOCAL_MACHINE, <root>) succeeds
RegRootOpens(root) ==
  can_read_reg /\ \E k \in registry : k.root = root

\* SCons.Util.RegOpenKeyEx(HKEY_LOCAL_MACHINE, <root>\<version>) succeeds
RegKeyOpens(path) ==
  can_read_reg /\ [root |-> path[1], version |-> path[2]] \in registry

\* the names SCons.Util.RegEnumKey enumerates under a root
RegEnumKeys(root) == {k.version : k \in {x \in registry : x.root = root}}

----------------------------------------------------------------------------
(* The regular expressions of the module *)

DigitOrDot(c) == IsDigit(c) \/ c = "."

\* index after an optional "_sp" and the digits that follow it
AfterSp(s, j) ==
  IF j + 2 <= Len(s) /\ s[j] = "_" /\ s[j + 1] = "s" /\ s[j + 2] = "p"
  THEN j + 3 + DigitRun(s, j + 3)
  ELSE j

\* ([0-9]{0,4})(?:_sp\d*)?\.([0-9][0-9.]*)$  matches s from index i on
VersionRegexAt(s, i) ==
  LET k == DigitRun(s, i)
      j == AfterSp(s, i + k)
  IN  /\ k <= 4
      /\ j + 1 <= Len(s)
      /\ s[j] = "."
      /\ IsDigit(s[j + 1])
      /\ \A m \in (j + 2)..Len(s) : DigitOrDot(s[m])

\* "%s.%s" % (m.group(1), m.group(2)) for the leftmost match of the
\* expression in s, None when re.search finds no match
VersionRegex(s) ==
  LET starts == {i \in 1..Len(s) : VersionRegexAt(s, i)}
  IN  IF starts = {} THEN None
      ELSE LET i == CHOOSE x \in starts : \A y \in starts : x <= y
               k == DigitRun(s, i)
               j == AfterSp(s, i + k)
           IN  SubSeq(s, i, i + k - 1) \o <<".">> \o SubSeq(s, j + 1, Len(s))

\* m.group(1) of re.search(r"([0-9][0-9.]*)$", s), None when no match
TailRegex(s) ==
  LET starts == {i \in 1..Len(s) :
                   IsDigit(s[i]) /\ \A m \in i..Len(s) : DigitOrDot(s[m])}
  IN  IF starts = {} THEN None
      ELSE SubSeq(s, CHOOSE x \in starts : \A y \in starts : x <= y, Len(s))

\* the version string the module extracts from a directory path
DirVersion(d) == VersionRegex(DirTail(d[3]))

----------------------------------------------------------------------------
(* The catalog *)

LegacyRoot == "Fortran"
ModernRoot == "1AFortran"

\* the root of the registry path of a version; requires int() to succeed
get_registry_path_root(version) ==
  IF DigitsToNat(FirstComponent(version)) < 2023
  THEN LegacyRoot ELSE ModernRoot

\* the exception get_registry_path raises, "" when it returns
get_registry_path_exc(version) ==
  IF version = None THEN "AttributeError"
  ELSE IF ~IsInt(FirstComponent(version)) THEN "ValueError"
  ELSE ""

get_registry_path(version) == <<get_registry_path_root(version), version>>

\* the subkeys of a root that float() accepts, in enumeration order
extract_compiler_versions_from_registry(root) ==
  IF ~RegRootOpens(root) THEN << >>
  ELSE SelectSeq(SetToSeq(RegEnumKeys(root)), IsFloat)

\* the value get_all_compiler_versions returns on a host that is neither
\* win32 nor linux: the function falls off its end
NoneList == <<None>>

linux_versions(kind) ==
  LET all == SetToSeq(glob(kind))
      vers == [i \in 1..Len(all) |-> DirVersion(all[i])]
      matched(v) == v # None
  IN  SelectSeq(vers, matched)

get_all_compiler_versions ==
  IF is_windows
  THEN SortedReverse(extract_compiler_versions_from_registry(LegacyRoot)
                       \o extract_compiler_versions_from_registry(ModernRoot))
  ELSE IF is_linux
  THEN SortedReverse(linux_versions("composer_xe_")
                       \o linux_versions("compilers_and_libraries_"))
  ELSE NoneList

----------------------------------------------------------------------------
(* The resolver *)

\* the result of a lookup: a value returned or an exception raised
Returned(top, strategy, dir) ==
  [status |-> "returned", exc |-> "", top |-> top, strategy |-> strategy,
   dir |-> dir]

Raised(exc) ==
  [status |-> "raised", exc |-> exc, top |-> None, strategy |-> "none",
   dir |-> None]

\* get_intel_registry_value("ProductDir", version): abi and msvs are None
get_intel_registry_value(version) ==
  IF get_registry_path_exc(version) # ""
  THEN Raised(get_registry_path_exc(version))
  ELSE IF ~RegKeyOpens(get_registry_path(version))
  THEN Raised("MissingRegistryError")
  ELSE IF ProductDirOf(get_registry_path_root(version), version) = None
  THEN Raised("MissingRegistryError")
  ELSE Returned(ProductDirOf(get_registry_path_root(version), version),
                "registry", None)

\* a compiler binary exists under bin/ia32 or bin/intel64 of a root
HasIcc(root) ==
  \/ exists(join(root, <<"bin", "ia32", "icc">>))
  \/ exists(join(root, <<"bin", "intel64", "icc">>))

\* the directories the first loop of find_in_2011style_dir may stop at
Candidates2011xe(version) ==
  {d \in glob("composer_xe_") :
     DirVersion(d) # None /\ DirVersion(d) = version /\ HasIcc(d)}

\* the directories its second loop may stop at
Candidates2011dash(version) ==
  {d \in glob("composerxe-") :
     /\ TailRegex(DirTail(d[3])) # None
     /\ TailRegex(DirTail(d[3])) = version
     /\ HasIcc(d)}

\* the values find_in_2011style_dir may return: the first directory, in
\* glob's unspecified order, that satisfies the test
find_in_2011style_dir(version) ==
  IF Candidates2011xe(version) # {} THEN Candidates2011xe(version)
  ELSE IF Candidates2011dash(version) # {} THEN Candidates2011dash(version)
  ELSE {None}

\* the test a directory passes in the loop of find_in_2017style_dir
Accepts2017(d, version) ==
  /\ DirVersion(d) # None
  /\ \/ DirVersion(d) = version
     \/ Contains(IntOfFloat(version), DirVersion(d))
  /\ HasIcc(join(d, <<"linux">>))

\* the results find_in_2017style_dir may have
find_in_2017style_dir(version) ==
  IF version = None THEN {Raised("TypeError")}
  ELSE IF ~IsFloat(version) THEN {Raised("ValueError")}
  ELSE LET C == {d \in glob("compilers_and_libraries_") :
                   Accepts2017(d, version)}
       IN  IF C = {} THEN {Returned(None, "none", None)}
           ELSE {Returned(join(d, <<"linux">>), "2017", d) : d \in C}

\* the results get_intel_compiler_top may have
get_intel_compiler_top(version, abi) ==
  IF is_windows
  THEN IF ~can_read_reg THEN {Raised("NoRegistryModuleError")}
       ELSE {get_intel_registry_value(version)}
  ELSE IF is_linux
  THEN IF find_in_2011style_dir(version) # {None}
       THEN {Returned(d, "2011", d) : d \in find_in_2011style_dir(version)}
       ELSE { IF r.status = "returned" /\ r.top = None
              THEN Raised("MissingDirError") ELSE r :
              r \in find_in_2017style_dir(version) }
  ELSE {Returned(None, "none", None)}

----------------------------------------------------------------------------
(* generate *)

\* the abi argument left out
NoAbi == "None"

AbiAliases == {"x86_64", "amd64", "em64t", "x86", "i386", "ia32"}

\* the archdir dictionary of generate
ArchDir(abi) ==
  IF abi \in {"x86_64", "amd64", "em64t"} THEN "intel64" ELSE "ia32"

\* the version generate goes on with after looking at the catalog
SelectVersion(vlist, version) ==
  IF Len(vlist) = 0 THEN version
  ELSE IF version = None THEN vlist[1]
  ELSE LET hits == {i \in 1..Len(vlist) :
                      Contains(StripDots(version), vlist[i])}
       IN  IF hits = {} THEN version
           ELSE vlist[CHOOSE i \in hits : \A j \in hits : i <= j]

\* the abi generate goes on with
DefaultAbi(abi) ==
  IF abi # NoAbi THEN abi
  ELSE IF is_win64 \/ is_linux THEN "x86_64" ELSE "ia32"

\* bindir, libdir and incdir, relative to topdir
Layout(topdir, archdir) ==
  IF exists(join(topdir, <<"bin", archdir>>))
  THEN [bindir |-> <<"bin", archdir>>,
        libdir |-> <<"compiler", "lib", archdir>>,
        incdir |-> <<"compiler", "include">>]
  ELSE [bindir |-> <<"bin">>, libdir |-> <<"lib">>, incdir |-> <<"include">>]

\* binmkl is set
HasMkl(topdir, archdir) == exists(join(topdir, <<"mkl", "bin", archdir>>))

\* env["INTEL_FORTRAN_REDIST_DIR"]
RedistDir(topdir) ==
  IF is_windows
  THEN IF isdir(join(topdir, <<"redist", "intel64">>))
       THEN join(topdir, <<"redist", "intel64", "compiler">>)
       ELSE join(topdir, <<"redist", "intel64_win", "compiler">>)
  ELSE IF isdir(join(topdir, <<"lib", "intel64">>))
       THEN join(topdir, <<"lib", "intel64">>)
       ELSE join(topdir, <<"lib", "intel64_lin">>)

Mut(var, kind, path) == [var |-> var, kind |-> kind, path |-> path]

\* the three AppendENVPath calls for the base toolchain
BaseMutations(topdir, archdir) ==
  << Mut("INCLUDE", "base", join(topdir, Layout(topdir, archdir).incdir)),
     Mut("LIB", "base", join(topdir, Layout(topdir, archdir).libdir)),
     Mut("PATH", "base", join(topdir, Layout(topdir, archdir).bindir)) >>

\* the AppendENVPath calls for the math library
MklMutations(topdir, archdir) ==
  IF HasMkl(topdir, archdir)
  THEN << Mut("PATH", "mkl", join(topdir, <<"mkl", "bin", archdir>>)),
          Mut("INCLUDE", "mkl", join(topdir, <<"mkl", "include">>)),
          Mut("LIB", "mkl", join(topdir, <<"mkl", "lib", archdir>>)) >>
  ELSE << >>

\* PlatformMutations with the test of the platform lost before the
\* LD_LIBRARY_PATH calls
PlatformMutationsAnyPlatform(topdir, archdir) ==
  (IF is_windows
   THEN << Mut("PATH", "redist",
               join(topdir, <<"redist", archdir, "compiler">>)) >>
   ELSE << >>)
    \o << Mut("LD_LIBRARY_PATH", "base",
              join(topdir, Layout(topdir, archdir).libdir)) >>

\* the AppendENVPath calls that depend on the platform
PlatformMutations(topdir, archdir) ==
  IF is_windows
  THEN << Mut("PATH", "redist",
              join(topdir, <<"redist", archdir, "compiler">>)) >>
  ELSE IF is_linux
  THEN << Mut("LD_LIBRARY_PATH", "base",
              join(topdir, Layout(topdir, archdir).libdir)) >>
       \o (IF HasMkl(topdir, archdir)
           THEN << Mut("LD_LIBRARY_PATH", "mkl",
                       join(topdir, <<"mkl", "lib", archdir>>)) >>
           ELSE << >>)
  ELSE << >>

\* Mutations with the math-library calls made before the base calls
MutationsMklFirst(topdir, archdir) ==
  MklMutations(topdir, archdir) \o BaseMutations(topdir, archdir)
    \o PlatformMutations(topdir, archdir)

\* the AppendENVPath calls of generate, in the order it makes them
Mutations(topdir, archdir) ==
  BaseMutations(topdir, archdir) \o MklMutations(topdir, archdir)
    \o PlatformMutations(topdir, archdir)

EnvVars == {"INCLUDE", "LIB", "PATH", "LD_LIBRARY_PATH"}

\* env.AppendENVPath(var, path): the path goes to the end of the variable
\* unless the variable holds it already
AppendENVPath(ENV, var, path) ==
  IF \E i \in 1..Len(ENV[var]) : ENV[var][i] = path THEN ENV
  ELSE [ENV EXCEPT ![var] = Append(@, path)]

RECURSIVE ApplyMutations(_, _)
ApplyMutations(ENV, muts) ==
  IF muts = << >> THEN ENV
  ELSE ApplyMutations(AppendENVPath(ENV, muts[1].var, muts[1].path), Tail(muts))

\* the construction environment generate is given
FreshEnv ==
  [FORTRANFILESUFFIXES |-> << >>, F90FILESUFFIXES |-> << >>,
   INTEL_FORTRAN_COMPILER_TOP |-> None, INTEL_FORTRAN_REDIST_DIR |-> None,
   ENV |-> [v \in EnvVars |-> << >>], FORTRAN |-> "", FORTRANMODDIRPREFIX |-> ""]

\* lines 290-298: the file suffixes, set before the catalog is read
WithSuffixes(env) ==
  [env EXCEPT !.FORTRANFILESUFFIXES = Append(@, ".i"),
              !.F90FILESUFFIXES = Append(@, ".i90")]

\* lines 404-430: the dialect variables, set after the path mutations
WithDialects(env) ==
  [env EXCEPT !.FORTRAN = "ifort",
              !.FORTRANMODDIRPREFIX =
                 IF is_windows THEN "/module:" ELSE "-module "]

NoOutcome ==
  [op |-> "none", status |-> "none", exc |-> "", vlist |-> << >>,
   version |-> None, abi |-> NoAbi, top |-> None, strategy |-> "none",
   dir |-> None, mutations |-> << >>, env |-> FreshEnv]

\* generate left by an exception: the suffixes are set, nothing else
GenRaised(exc, vlist, version, abi) ==
  [NoOutcome EXCEPT !.op = "generate", !.status = "raised", !.exc = exc,
                    !.vlist = vlist, !.version = version, !.abi = abi,
                    !.env = WithSuffixes(FreshEnv)]

\* generate from line 333 on, given the result r of locating topdir
GenFinish(r, vlist, version, abi, verbose) ==
  IF r.status = "raised" THEN GenRaised(r.exc, vlist, version, abi)
  ELSE IF r.top = None
  THEN IF verbose # 0 THEN GenRaised("TypeError", vlist, version, abi)
       ELSE [NoOutcome EXCEPT !.op = "generate", !.status = "returned",
                              !.vlist = vlist, !.version = version,
                              !.abi = abi,
                              !.env = WithDialects(WithSuffixes(FreshEnv))]
  ELSE IF abi \notin AbiAliases THEN GenRaised("KeyError", vlist, version, abi)
  ELSE [NoOutcome EXCEPT
          !.op = "generate", !.status = "returned", !.vlist = vlist,
          !.version = version, !.abi = abi, !.top = r.top,
          !.strategy = r.strategy, !.dir = r.dir,
          !.mutations = Mutations(r.top, ArchDir(abi)),
          !.env = WithDialects(
                    [WithSuffixes(FreshEnv) EXCEPT
                       !.INTEL_FORTRAN_REDIST_DIR = RedistDir(r.top),
                       !.INTEL_FORTRAN_COMPILER_TOP = r.top,
                       !.ENV = ApplyMutations(@, Mutations(r.top, ArchDir(abi)))])]

\* the outcomes generate(env, version, abi, topdir, verbose) may have
generate(version, abi, topdir, verbose) ==
  LET vlist == get_all_compiler_versions
  IN  IF vlist = NoneList
      THEN {GenRaised("TypeError", vlist, version, abi)}
      ELSE IF topdir = None /\ Len(vlist) = 0
      THEN {[NoOutcome EXCEPT !.op = "generate", !.status = "declined",
                              !.version = version, !.abi = abi,
                              !.env = WithSuffixes(FreshEnv)]}
      ELSE LET sel == SelectVersion(vlist, version)
               abi2 == DefaultAbi(abi)
           IN  IF verbose # 0 /\ sel = None
               THEN {GenRaised("TypeError", vlist, sel, abi)}
               ELSE IF topdir = None \/ ~exists(topdir)
               THEN {GenFinish(r, vlist, sel, abi2, verbose) :
                       r \in get_intel_compiler_top(sel, abi2)}
               ELSE {GenFinish(Returned(topdir, "explicit", None),
                               vlist, sel, abi2, verbose)}

----------------------------------------------------------------------------
(* The state machine: a host, and one call applied to it *)

\* version arguments of the calls
RequestedVersions ==
  {None, V19, V19_0, V190, V2017, V2017_4, V4_0, V99_9, V12_1}

\* abi arguments of the calls ("mips" is no alias the module knows)
RequestedAbis == {NoAbi, "x86", "mips"}

RequestedTopdirs == {None, CustomTop, MissingTop}

NoCall ==
  [op |-> "none", version |-> None, abi |-> NoAbi, topdir |-> None,
   verbose |-> 0]

Init ==
  /\ platform \in {"win32", "linux", "darwin"}
  /\ is_win64 \in BOOLEAN
  /\ can_read_reg \in BOOLEAN
  /\ platform # "win32" => ~is_win64 /\ ~can_read_reg
  /\ registry \in KeySets(MaxKeys)
  /\ ~can_read_reg => registry = {}
  /\ fs \in LinuxFilesystems \cup {WindowsFilesystem, Prefixes(CustomTop)}
  /\ platform = "win32" => fs = WindowsFilesystem
  /\ platform = "linux" => fs \in LinuxFilesystems
  /\ platform = "darwin" => fs = Prefixes(CustomTop)
  /\ call = NoCall
  /\ outcome = NoOutcome

\* generate(env, version, abi, topdir, verbose) on a fresh environment
Generate ==
  /\ call.op = "none"
  /\ \E version \in RequestedVersions, abi \in RequestedAbis,
        topdir \in RequestedTopdirs, verbose \in {0, 1} :
       /\ call' = [op |-> "generate", version |-> version, abi |-> abi,
                   topdir |-> topdir, verbose |-> verbose]
       /\ outcome' \in generate(version, abi, topdir, verbose)
  /\ UNCHANGED <<platform, is_win64, can_read_reg, fs, registry>>

\* get_all_compiler_versions()
GetAllCompilerVersions ==
  /\ call.op = "none"
  /\ call' = [NoCall EXCEPT !.op = "get_all_compiler_versions"]
  /\ outcome' = [NoOutcome EXCEPT !.op = "get_all_compiler_versions",
                                  !.status = "returned",
                                  !.vlist = get_all_compiler_versions]
  /\ UNCHANGED <<platform, is_win64, can_read_reg, fs, registry>>

\* the version strings the catalog of the host holds
Catalogued ==
  LET vlist == get_all_compiler_versions
  IN  IF vlist = NoneList THEN {} ELSE {vlist[i] : i \in 1..Len(vlist)}

\* get_intel_compiler_top(version, abi)
GetIntelCompilerTop ==
  /\ call.op = "none"
  /\ \E version \in (RequestedVersions \ {None}) \cup Catalogued,
        abi \in {"x86", "amd64"} :
       /\ call' = [NoCall EXCEPT !.op = "get_intel_compiler_top",
                                 !.version = version, !.abi = abi]
       /\ \E r \in get_intel_compiler_top(version, abi) :
            outcome' = [NoOutcome EXCEPT
                          !.op = "get_intel_compiler_top",
                          !.status = r.status, !.exc = r.exc,
                          !.version = version, !.abi = abi, !.top = r.top,
                          !.strategy = r.strategy, !.dir = r.dir]
  /\ UNCHANGED <<platform, is_win64, can_read_reg, fs, registry>>

\* get_registry_path(version); the path is returned in top
GetRegistryPath ==
  /\ call.op = "none"
  /\ \E version \in (RequestedVersions \ {None}) \cup Catalogued :
       /\ call' = [NoCall EXCEPT !.op = "get_registry_path",
                                 !.version = version]
       /\ outcome' =
            IF get_registry_path_exc(version) # ""
            THEN [NoOutcome EXCEPT !.op = "get_registry_path",
                                   !.status = "raised",
                                   !.exc = get_registry_path_exc(version),
                                   !.version = version]
            ELSE [NoOutcome EXCEPT !.op = "get_registry_path",
                                   !.status = "returned",
                                   !.version = version,
                                   !.strategy = get_registry_path_root(version)]
  /\ UNCHANGED <<platform, is_win64, can_read_reg, fs, registry>>

Next ==
  \/ Generate
  \/ GetAllCompilerVersions
  \/ GetIntelCompilerTop
  \/ GetRegistryPath

Spec == Init /\ [][Next]_vars

----------------------------------------------------------------------------
(* Notions the properties are stated with *)

RECURSIVE SplitDots(_)
\* the dotted components of a version string
SplitDots(s) ==
  IF \A i \in 1..Len(s) : s[i] # "." THEN <<s>>
  ELSE <<FirstComponent(s)>>
         \o SplitDots(SubSeq(s, Len(FirstComponent(s)) + 2, Len(s)))

\* the dotted components as numbers
Components(s) ==
  [i \in 1..Len(SplitDots(s)) |-> DigitsToNat(SplitDots(s)[i])]

\* version a is older than version b, components compared as numbers
OlderThan(a, b) ==
  LET x == Components(a)
      y == Components(b)
  IN  \E i \in 1..(Min(Len(x), Len(y)) + 1) :
        /\ \A j \in 1..(i - 1) : x[j] = y[j]
        /\ \/ i > Len(x) /\ i <= Len(y)
           \/ i <= Len(x) /\ i <= Len(y) /\ x[i] < y[i]

TypedErrors ==
  {"MissingRegistryError", "MissingDirError", "NoRegistryModuleError"}

\* generate got as far as selecting a version from a catalog with entries
Selected ==
  /\ outcome.op = "generate"
  /\ outcome.status \in {"returned", "raised"}
  /\ outcome.vlist # NoneList
  /\ Len(outcome.vlist) > 0

\* the catalog entries whose separator-stripped form contains the
\* separator-stripped request
StrippedHits(vlist, version) ==
  {i \in 1..Len(vlist) :
     Contains(StripDots(version), StripDots(vlist[i]))}

\* generate accepted a top directory
Accepted ==
  /\ outcome.op = "generate"
  /\ outcome.env.INTEL_FORTRAN_COMPILER_TOP # None

\* the root a catalogued directory would be resolved to
RootOf(d) ==
  IF DirKind(d[3]) = "compilers_and_libraries_" THEN join(d, <<"linux">>)
  ELSE d

\* the directories of the two catalogued patterns that hold a compiler
\* binary and from whose name the version v is extracted
InstalledDirs(v) ==
  {d \in glob("composer_xe_") \cup glob("compilers_and_libraries_") :
     DirVersion(d) # None /\ DirVersion(d) = v /\ HasIcc(RootOf(d))}

\* the positions of the mutations of a kind to a variable
MutIdx(muts, var, kind) ==
  {i \in 1..Len(muts) : muts[i].var = var /\ muts[i].kind = kind}

\* the positions of a path in a variable of the execution environment
PathIdx(ENV, var, path) == {i \in 1..Len(ENV[var]) : ENV[var][i] = path}

----------------------------------------------------------------------------
(* Properties *)

\* C1: when a version is requested and the catalog is non-empty, generate
\* selects the first catalog entry whose separator-stripped form contains
\* the separator-stripped request.
C1_StrippedSelection ==
  (Selected /\ call.version # None
     /\ StrippedHits(outcome.vlist, call.version) # {})
  => outcome.version =
       outcome.vlist[CHOOSE i \in StrippedHits(outcome.vlist, call.version) :
                       \A j \in StrippedHits(outcome.vlist, call.version) :
                         i <= j]

\* C2: generate returns without configuring a toolchain only when neither
\* a version nor a topdir was requested; with a version requested and no
\* installation found it raises.
C2_SilentOnlyUnrequested ==
  (outcome.op = "generate" /\ outcome.status = "declined")
  => (call.version = None /\ call.topdir = None)

\* C3: every exception that leaves generate is one of MissingRegistryError,
\* MissingDirError and NoRegistryModuleError.
C3_TypedFailures ==
  (outcome.op = "generate" /\ outcome.status = "raised")
  => outcome.exc \in TypedErrors

\* C4: a top directory that generate accepts exists and holds a compiler
\* binary under the bin directory chosen for the requested ABI.
C4_AcceptedTopHasBinary ==
  Accepted
  => /\ exists(outcome.top)
     /\ \E b \in {"icc", "ifort", "ifort.exe"} :
          exists(join(outcome.top,
                      Layout(outcome.top, ArchDir(outcome.abi)).bindir
                        \o <<b>>))

\* C5: in the list get_all_compiler_versions returns no entry is followed
\* by a more recent version, components compared as numbers.
C5_MostRecentFirst ==
  (outcome.op = "get_all_compiler_versions" /\ outcome.vlist # NoneList)
  => \A i, j \in 1..Len(outcome.vlist) :
       i < j => ~OlderThan(outcome.vlist[i], outcome.vlist[j])

\* C6: on win32, with a non-empty catalog and no version requested,
\* generate selects the first catalog entry ("2021.3" for the legacy keys
\* 19.0 and 2021.3), and without a math-library subtree under the resolved
\* root it appends exactly four paths: one each to INCLUDE, LIB and PATH
\* for the base toolchain and one to PATH for the redistributable directory.
C6_RegistryDefaultSelection ==
  (Selected /\ is_windows /\ call.version = None)
  => /\ outcome.version = outcome.vlist[1]
     /\ \A k \in registry : IsFloat(k.version) =>
          ~StrLess(outcome.version, k.version)
     /\ registry = {[root |-> LegacyRoot, version |-> V19_0],
                    [root |-> LegacyRoot, version |-> V2021_3]}
          => outcome.version = V2021_3
     /\ (Accepted /\ ~HasMkl(outcome.top, ArchDir(outcome.abi)))
          => /\ Len(outcome.mutations) = 4
             /\ \A v \in {"INCLUDE", "LIB", "PATH"} :
                  Cardinality(MutIdx(outcome.mutations, v, "base")) = 1
             /\ \E i \in 1..4 :
                  outcome.mutations[i] =
                    Mut("PATH", "redist",
                        join(outcome.top,
                             <<"redist", ArchDir(outcome.abi), "compiler">>))
             /\ \A i \in 1..4 :
                  /\ outcome.mutations[i].kind # "mkl"
                  /\ outcome.mutations[i].var # "LD_LIBRARY_PATH"
                  /\ "mkl" \notin {outcome.mutations[i].path[n] :
                                     n \in 1..Len(outcome.mutations[i].path)}

C6_Witness ==
  /\ Selected /\ is_windows /\ call.version = None
  /\ registry = {[root |-> LegacyRoot, version |-> V19_0],
                 [root |-> LegacyRoot, version |-> V2021_3]}
  /\ Accepted
  /\ outcome.strategy = "registry"
  /\ ~HasMkl(outcome.top, ArchDir(outcome.abi))
  /\ Len(outcome.mutations) = 4

\* C7: math-library paths are appended only when mkl/bin/<archdir> exists
\* under the resolved root, and then each of PATH, INCLUDE and LIB gets its
\* math-library path after its base toolchain path, so the base directory
\* stands ahead of the math-library directory in the variable.
C7_MklAfterBase ==
  Accepted
  => /\ (\E i \in 1..Len(outcome.mutations) :
           outcome.mutations[i].kind = "mkl")
          => exists(join(outcome.top,
                         <<"mkl", "bin", ArchDir(outcome.abi)>>))
     /\ \A v \in {"PATH", "INCLUDE", "LIB"} :
          /\ MutIdx(outcome.mutations, v, "base") # {}
          /\ \A i \in MutIdx(outcome.mutations, v, "base"),
                j \in MutIdx(outcome.mutations, v, "mkl") :
               /\ i < j
               /\ \A a \in PathIdx(outcome.env.ENV, v,
                                   outcome.mutations[i].path),
                     b \in PathIdx(outcome.env.ENV, v,
                                   outcome.mutations[j].path) : a < b
               /\ PathIdx(outcome.env.ENV, v, outcome.mutations[i].path) # {}
               /\ PathIdx(outcome.env.ENV, v, outcome.mutations[j].path) # {}

C7_Witness ==
  /\ Accepted
  /\ exists(join(outcome.top, <<"mkl", "bin", ArchDir(outcome.abi)>>))
  /\ \A v \in {"PATH", "INCLUDE", "LIB"} :
       /\ MutIdx(outcome.mutations, v, "mkl") # {}
       /\ Len(outcome.env.ENV[v]) = 2

\* C8: find_in_2017style_dir returns a directory only if it holds a
\* compiler binary under linux/bin/<abi-dir> and the version in its name
\* equals the requested version or has the integer-truncated request as
\* its leading (year) component; the root returned ends in "linux".
C8_Strategy2017Match ==
  (outcome.op = "get_intel_compiler_top" /\ outcome.strategy = "2017")
  => /\ HasIcc(join(outcome.dir, <<"linux">>))
     /\ \/ DirVersion(outcome.dir) = call.version
        \/ FirstComponent(DirVersion(outcome.dir)) = IntOfFloat(call.version)
     /\ outcome.top = join(outcome.dir, <<"linux">>)

\* C9: on linux, for a version the catalog extracted from a directory that
\* holds the compiler binary, get_intel_compiler_top returns the root of
\* such a directory and does not fail.
C9_CatalogResolves ==
  (outcome.op = "get_intel_compiler_top" /\ is_linux
     /\ InstalledDirs(call.version) # {})
  => /\ outcome.status = "returned"
     /\ outcome.top \in {RootOf(d) : d \in InstalledDirs(call.version)}

\* C10: on win32, for a version enumerated from a registry root,
\* get_registry_path names the key under that same root.
C10_SameRegistryRoot ==
  (outcome.op = "get_registry_path" /\ is_windows
     /\ call.version \in Catalogued)
  => /\ outcome.status = "returned"
     /\ \A k \in registry :
          k.version = call.version => outcome.strategy = k.root

====
